---- MODULE Spec2Model ----
(***************************************************************************)
(* scalist: scaling of the selected keyframes of animation curves about a  *)
(* pivot, on the value axis or on the time axis, with one pivot for the    *)
(* whole selection or one pivot per curve (scalist v1.5).                  *)
(*                                                                         *)
(* The host (Maya) curve store is the variable keys; the Scalist object is *)
(* the variable obj; pc, c, i, key_range and lpivot are the position and   *)
(* the locals of the running scale function.  Times and values are exact   *)
(* rationals <<n, d>> in lowest terms with d > 0.                          *)
(***************************************************************************)
EXTENDS Integers, Sequences, FiniteSets, TLC

VARIABLES keys, lastSel, curTime, obj, pc, c, i, key_range, lpivot, log, pre, req

vars == <<keys, lastSel, curTime, obj, pc, c, i, key_range, lpivot, log, pre, req>>

----------------------------------------------------------------------------
(* Bounds of the explored inputs.                                          *)

\* key times of the first curve are drawn from the half-frame grid 0, 1/2, ..., MaxT/2
MaxT == 4
\* key values of the first curve are drawn from 0..MaxV
MaxV == 1

----------------------------------------------------------------------------
(* Exact rational arithmetic.                                              *)

RECURSIVE Gcd(_, _)
Gcd(a, b) == IF b = 0 THEN a ELSE Gcd(b, a % b)

Abs(n) == IF n < 0 THEN -n ELSE n

Rat(n, d) ==
    LET s == IF d < 0 THEN -1 ELSE 1
        g == Gcd(Abs(n), Abs(d))
    IN  <<(s * n) \div g, (s * d) \div g>>

Int2Rat(n) == <<n, 1>>
Zero == <<0, 1>>
One == <<1, 1>>
MinusOne == <<-1, 1>>
Half == <<1, 2>>

RAdd(p, q) == Rat(p[1] * q[2] + q[1] * p[2], p[2] * q[2])
RSub(p, q) == Rat(p[1] * q[2] - q[1] * p[2], p[2] * q[2])
RMul(p, q) == Rat(p[1] * q[1], p[2] * q[2])
RLt(p, q) == p[1] * q[2] < q[1] * p[2]
RLe(p, q) == p[1] * q[2] <= q[1] * p[2]
RIsInt(p) == p[2] = 1

\* nearest integer, a tie going away from zero
RRound(p) ==
    IF p[1] >= 0
    THEN Int2Rat((2 * p[1] + p[2]) \div (2 * p[2]))
    ELSE Int2Rat(-((2 * (-p[1]) + p[2]) \div (2 * p[2])))

\* max() and min() of a non-empty list
RMax(s) == CHOOSE x \in {s[k] : k \in DOMAIN s} : \A y \in {s[k] : k \in DOMAIN s} : RLe(y, x)
RMin(s) == CHOOSE x \in {s[k] : k \in DOMAIN s} : \A y \in {s[k] : k \in DOMAIN s} : RLe(x, y)

\* pivot + (x - pivot) * scale
ScaleAbout(x, pivot, scale) == RAdd(pivot, RMul(RSub(x, pivot), scale))

----------------------------------------------------------------------------
(* The host curve store: two curves, three keys on the first and two on    *)
(* the second.  A key keeps its identity while it is moved; a key that     *)
(* another key is written onto stays in the store as a dead record.        *)

KeyIds == {1, 2, 3, 4, 5}
CurveOf == <<1, 1, 1, 2, 2>>
CurveIds == {1, 2}

AliveIds(k) == {id \in KeyIds : k[id].alive}
SelectedIds(k) == {id \in KeyIds : k[id].alive /\ k[id].sel}
SelectedOn(k, cv) == {id \in SelectedIds(k) : k[id].curve = cv}

\* the keys of S in ascending time order
RECURSIVE ByTime(_, _)
ByTime(k, S) ==
    IF S = {} THEN <<>>
    ELSE LET m == CHOOSE x \in S : \A y \in S : RLt(k[x].t, k[y].t) \/ (k[x].t = k[y].t /\ x <= y)
         IN  <<m>> \o ByTime(k, S \ {m})

\* pm.keyframe(query=True, selected=True, name=True): the curves holding a selected key
RECURSIVE CurvesFrom(_, _)
CurvesFrom(k, cv) ==
    IF cv \notin CurveIds THEN <<>>
    ELSE (IF SelectedOn(k, cv) # {} THEN <<cv>> ELSE <<>>) \o CurvesFrom(k, cv + 1)

QueryCurves(k) == CurvesFrom(k, 1)

\* the selected keys in the order the host lists them: curve by curve, by time
RECURSIVE SelOrderFrom(_, _)
SelOrderFrom(k, cv) ==
    IF cv \notin CurveIds THEN <<>>
    ELSE ByTime(k, SelectedOn(k, cv)) \o SelOrderFrom(k, cv + 1)

QueryValues(k) == LET o == SelOrderFrom(k, 1) IN [n \in DOMAIN o |-> k[o[n]].v]
QueryTimes(k) == LET o == SelOrderFrom(k, 1) IN [n \in DOMAIN o |-> k[o[n]].t]

\* pm.keyframe(curve, query=True, selected=True, ...)
get_key_values(k, cv) == LET o == ByTime(k, SelectedOn(k, cv)) IN [n \in DOMAIN o |-> k[o[n]].v]
get_key_times(k, cv) == LET o == ByTime(k, SelectedOn(k, cv)) IN [n \in DOMAIN o |-> k[o[n]].t]

\* the keys a scaleKey or snapKey call acts on: the selected keys when the call
\* names no curve, the keys of the curve in the time range (t, t) otherwise
TargetsSelected(k) == SelectedIds(k)
\* scaleKey(curve, ...) with no time range: every key of the curve
TargetsAt_WholeCurve(k, cv, t) == {id \in AliveIds(k) : k[id].curve = cv}
TargetsAt(k, cv, t) == {id \in AliveIds(k) : k[id].curve = cv /\ k[id].t = t}

\* scaleKey(valuePivot, valueScale) on the keys of T
HostScaleValue(k, T, pivot, scale) ==
    [id \in KeyIds |-> IF id \in T THEN [k[id] EXCEPT !.v = ScaleAbout(@, pivot, scale)] ELSE k[id]]

\* The keys of T are written to the times nt[id].  A curve holds one key per time and
\* the last write wins: a key outside T sitting on a written time is replaced, and of
\* several keys of T written to one time the one written last (the latest in time
\* before the call) stays.
HostMoveTimes(k, T, nt) ==
    [id \in KeyIds |->
        IF id \in T
        THEN [k[id] EXCEPT !.t = nt[id],
                           !.alive = ~\E j \in T \ {id} :
                                        /\ k[j].curve = k[id].curve
                                        /\ nt[j] = nt[id]
                                        /\ (RLt(k[id].t, k[j].t) \/ (k[id].t = k[j].t /\ id < j))]
        ELSE [k[id] EXCEPT !.alive = @ /\ ~\E j \in T : k[j].curve = k[id].curve /\ nt[j] = k[id].t]]

\* scaleKey(timePivot, timeScale) on the keys of T
HostScaleTime(k, T, pivot, scale) ==
    HostMoveTimes(k, T, [id \in T |-> ScaleAbout(k[id].t, pivot, scale)])

\* snapKey(tm=1.0): every selected key goes to the nearest whole frame
HostSnap(k) ==
    HostMoveTimes(k, TargetsSelected(k), [id \in TargetsSelected(k) |-> RRound(k[id].t)])

----------------------------------------------------------------------------
(* The Scalist object and its pivot functions.                             *)

ValuePivots == {"pivot_zero_value", "pivot_highest_value", "pivot_lowest_value",
                "pivot_middle_value", "pivot_last_selected_value", "pivot_first_value",
                "pivot_flip_curve_value", "pivot_flip_zero_value"}
TimePivots == {"pivot_first_time", "pivot_last_time", "pivot_current_time",
               "pivot_last_selected_time"}
FlipPivots == {"pivot_flip_curve_value", "pivot_flip_zero_value"}
ValueModes == {"scale_keys_value", "scale_keys_value_multi"}
TimeModes == {"scale_keys_time", "scale_keys_time_multi"}

\* the names in get_pivot's switcher and in get_scale_type's scale_operations
Switcher == ValuePivots \cup TimePivots \cup {"pivot_ramped_value"}
ScaleOperations == ValueModes \cup TimeModes

\* one host call or warning, as the log records it
LogE(op, cv, pivot, scale, t) == [op |-> op, curve |-> cv, pivot |-> pivot, scale |-> scale, time |-> t]
Call(op) == LogE(op, 0, Zero, Zero, Zero)

NoObj == [pivot |-> "", scale |-> Zero, curves |-> <<>>, key_values |-> <<>>,
          key_times |-> <<>>, scale_type |-> ""]

pivot_zero_value == Zero
pivot_highest_value(o) == RMax(o.key_values)
pivot_lowest_value(o) == RMin(o.key_values)
\* (max + min) without the division by 2
pivot_middle_value_Sum(o) == RAdd(RMax(o.key_values), RMin(o.key_values))
pivot_middle_value(o) == RMul(RAdd(RMax(o.key_values), RMin(o.key_values)), Half)
pivot_first_time(o) == RMin(o.key_times)
pivot_last_time(o) == RMax(o.key_times)
pivot_first_value(o) == o.key_values[1]

\* the strategies whose pivot function queries the host
HostPivots == {"pivot_last_selected_value", "pivot_last_selected_time", "pivot_current_time"}

\* switcher.get gives None for a name that is not in the switcher, and func() then
\* raises.  The host's answer to keyframe(query=True, lastSelected=True, ...) is a
\* list, empty when the last selected key is no longer in the store: pivot[0] then
\* raises.
PivotRaises(s) ==
    \/ s.obj.pivot \notin Switcher
    \/ /\ s.obj.pivot \in {"pivot_last_selected_value", "pivot_last_selected_time"}
       /\ ~s.keys[s.lastSel].alive

\* self.scale set to -1 by every pivot function
ScaleAfterPivot_Always(o) == MinusOne

\* self.scale left alone by the flip strategies
ScaleAfterPivot_Never(o) == o.scale

\* self.scale after the pivot function has run: the flip strategies set it to -1
ScaleAfterPivot(o) == IF o.pivot \in FlipPivots THEN MinusOne ELSE o.scale

PivotValue(s) ==
    LET o == s.obj IN
    CASE o.pivot = "pivot_zero_value" -> pivot_zero_value
      [] o.pivot = "pivot_highest_value" -> pivot_highest_value(o)
      [] o.pivot = "pivot_lowest_value" -> pivot_lowest_value(o)
      [] o.pivot = "pivot_middle_value" -> pivot_middle_value(o)
      [] o.pivot = "pivot_last_selected_value" -> s.keys[s.lastSel].v
      [] o.pivot = "pivot_first_time" -> pivot_first_time(o)
      [] o.pivot = "pivot_last_time" -> pivot_last_time(o)
      [] o.pivot = "pivot_current_time" -> s.curTime
      [] o.pivot = "pivot_last_selected_time" -> s.keys[s.lastSel].t
      [] o.pivot = "pivot_flip_curve_value" -> pivot_middle_value(o)
      [] o.pivot = "pivot_first_value" -> pivot_first_value(o)
      [] o.pivot = "pivot_flip_zero_value" -> pivot_zero_value

\* get_pivot(): the pivot, the object after the call and the host queries made
get_pivot(s) ==
    [raises |-> PivotRaises(s),
     p |-> IF PivotRaises(s) THEN Zero ELSE PivotValue(s),
     obj |-> [s.obj EXCEPT !.scale = ScaleAfterPivot(s.obj)],
     log |-> IF s.obj.pivot \in HostPivots THEN <<Call("query_pivot")>> ELSE <<>>]

----------------------------------------------------------------------------
(* The selection guard and do_scale.                                       *)

single_key_exceptions == {"pivot_zero_value", "pivot_current_time", "pivot_flip_zero_value"}

\* the guard without the test of the strategy's name
check_for_selected_keys_AnyPivot(n, pivot) ==
    IF n >= 2 THEN TRUE
    ELSE IF n > 0 THEN TRUE
    ELSE FALSE

check_for_selected_keys(n, pivot) ==
    IF n >= 2 THEN TRUE
    ELSE IF n > 0 /\ pivot \in single_key_exceptions THEN TRUE
    ELSE FALSE

\* Scalist.__init__: the user's scale and the selection as the host holds it
Scalist(k, r) ==
    [pivot |-> r.pivot, scale |-> r.scale, curves |-> QueryCurves(k),
     key_values |-> QueryValues(k), key_times |-> QueryTimes(k), scale_type |-> r.scale_type]

InitLog == <<Call("getValue"), Call("query_curves"), Call("query_values"), Call("query_times")>>

\* get_scale_type skipping a name that scale_operations does not hold
get_scale_type_Silent(scale_type) ==
    IF scale_type \in ScaleOperations THEN scale_type ELSE "done"

\* get_scale_type: the scale function that runs next; scale_operations.get gives None
\* for a name it does not hold, and func() then raises
get_scale_type(scale_type) ==
    IF scale_type \in ScaleOperations THEN scale_type ELSE "error"

\* do_scale going on after the guard has warned
do_scale_NoAbort(k, r) ==
    LET ok == check_for_selected_keys(Cardinality(SelectedIds(k)), r.pivot) IN
    [keys |-> k, lastSel |-> r.ls, curTime |-> r.ct,
     obj |-> Scalist(k, r),
     pc |-> get_scale_type(r.scale_type),
     c |-> 1, i |-> 1, key_range |-> <<>>, lpivot |-> Zero,
     log |-> <<Call("query_selected")>> \o (IF ok THEN <<>> ELSE <<Call("warning")>>) \o InitLog]

\* do_scale on the store k with the request r: the state in which the scale
\* function chosen by get_scale_type is about to run, or the rejected state
do_scale(k, r) ==
    LET ok == check_for_selected_keys(Cardinality(SelectedIds(k)), r.pivot) IN
    [keys |-> k, lastSel |-> r.ls, curTime |-> r.ct,
     obj |-> IF ok THEN Scalist(k, r) ELSE NoObj,
     pc |-> IF ok THEN get_scale_type(r.scale_type) ELSE "rejected",
     c |-> 1, i |-> 1, key_range |-> <<>>, lpivot |-> Zero,
     log |-> <<Call("query_selected")>> \o (IF ok THEN InitLog ELSE <<Call("warning")>>)]

----------------------------------------------------------------------------
(* The four scale functions, one step per host write.  A step takes the    *)
(* whole state as a record s and gives the state after it.                 *)

Final == {"done", "rejected", "error"}

Curve(s) == s.obj.curves[s.c]

Raise(s, g) == [s EXCEPT !.pc = "error", !.obj = g.obj, !.log = s.log \o g.log]

\* scale_keys_value with the pivot and the scale given to the wrong keywords
scale_keys_value_Swapped(s) ==
    LET g == get_pivot(s) IN
    IF g.raises THEN Raise(s, g)
    ELSE [s EXCEPT !.keys = HostScaleValue(s.keys, TargetsSelected(s.keys), g.obj.scale, g.p),
                   !.obj = g.obj,
                   !.log = s.log \o g.log \o <<LogE("scaleKey_value", 0, g.p, g.obj.scale, Zero)>>,
                   !.pc = "done"]

\* scale_keys_value with timePivot and timeScale for valuePivot and valueScale
scale_keys_value_TimeAxis(s) ==
    LET g == get_pivot(s) IN
    IF g.raises THEN Raise(s, g)
    ELSE [s EXCEPT !.keys = HostScaleTime(s.keys, TargetsSelected(s.keys), g.p, g.obj.scale),
                   !.obj = g.obj,
                   !.log = s.log \o g.log \o <<LogE("scaleKey_time", 0, g.p, g.obj.scale, Zero)>>,
                   !.pc = "done"]

\* scale_keys_value: one scaleKey call on the selected keys; the pivot argument is
\* evaluated before self.scale is read
scale_keys_value(s) ==
    LET g == get_pivot(s) IN
    IF g.raises THEN Raise(s, g)
    ELSE [s EXCEPT !.keys = HostScaleValue(s.keys, TargetsSelected(s.keys), g.p, g.obj.scale),
                   !.obj = g.obj,
                   !.log = s.log \o g.log \o <<LogE("scaleKey_value", 0, g.p, g.obj.scale, Zero)>>,
                   !.pc = "done"]

\* scale_keys_value_multi, the head of the loop over the curves: the curve's selected
\* values and times are read from the host and its pivot is taken
value_multi_curve(s) ==
    LET o == [s.obj EXCEPT !.key_values = get_key_values(s.keys, Curve(s)),
                           !.key_times = get_key_times(s.keys, Curve(s))]
        g == get_pivot([s EXCEPT !.obj = o])
        l == s.log \o <<Call("query_values"), Call("query_times")>>
    IN  IF g.raises THEN Raise([s EXCEPT !.log = l], g)
        ELSE [s EXCEPT !.obj = g.obj, !.lpivot = g.p, !.i = 1, !.pc = "value_multi_keys",
                       !.log = l \o g.log]

\* where the loop over a curve's keys goes after its last key
AfterCurve(s, more) ==
    IF s.c < Len(s.obj.curves) THEN [s EXCEPT !.c = s.c + 1, !.pc = more]
    ELSE [s EXCEPT !.pc = "done"]

\* scale_keys_value_multi leaving the loop over the keys after its first pass
value_multi_key_FirstOnly(s) ==
    LET t == s.obj.key_times[s.i] IN
    AfterCurve([s EXCEPT !.keys = HostScaleValue(s.keys, TargetsAt(s.keys, Curve(s), t),
                                                 s.lpivot, s.obj.scale),
                         !.log = s.log \o <<LogE("scaleKey_value", Curve(s), s.lpivot, s.obj.scale, t)>>,
                         !.i = s.i + 1],
               "scale_keys_value_multi")

\* scale_keys_value_multi, one pass of the loop over the keys: the key at key_times[i]
value_multi_key(s) ==
    LET t == s.obj.key_times[s.i]
        w == [s EXCEPT !.keys = HostScaleValue(s.keys, TargetsAt(s.keys, Curve(s), t),
                                               s.lpivot, s.obj.scale),
                       !.log = s.log \o <<LogE("scaleKey_value", Curve(s), s.lpivot, s.obj.scale, t)>>,
                       !.i = s.i + 1]
    IN  IF s.i < Len(s.obj.key_values) THEN w ELSE AfterCurve(w, "scale_keys_value_multi")

\* scale_keys_time, the scaleKey call
scale_keys_time(s) ==
    LET g == get_pivot(s) IN
    IF g.raises THEN Raise(s, g)
    ELSE [s EXCEPT !.keys = HostScaleTime(s.keys, TargetsSelected(s.keys), g.p, g.obj.scale),
                   !.obj = g.obj,
                   !.log = s.log \o g.log \o <<LogE("scaleKey_time", 0, g.p, g.obj.scale, Zero)>>,
                   !.pc = "time_snap"]

\* scale_keys_time, the snapKey call
time_snap(s) ==
    [s EXCEPT !.keys = HostSnap(s.keys), !.log = s.log \o <<Call("snapKey")>>, !.pc = "done"]

\* xrange(n) whatever the pivot
KeyRange_Forward(pivot, n) == [k \in 1..n |-> k]

\* reversed(xrange(n)) for the last-time pivot, xrange(n) otherwise (as 1..n here)
KeyRange(pivot, n) ==
    IF pivot = "pivot_last_time" THEN [k \in 1..n |-> n + 1 - k] ELSE [k \in 1..n |-> k]

\* scale_keys_time_multi, the head of the loop over the curves
time_multi_curve(s) ==
    LET kt == get_key_times(s.keys, Curve(s)) IN
    [s EXCEPT !.obj = [s.obj EXCEPT !.key_times = kt],
              !.key_range = KeyRange(s.obj.pivot, Len(kt)),
              !.i = 1, !.pc = "time_multi_keys",
              !.log = s.log \o <<Call("query_times")>>]

\* scale_keys_time_multi, one pass of the loop over key_range: get_pivot() is called
\* in every pass, and the key is addressed by the time it had when the curve was read
time_multi_key(s) ==
    LET g == get_pivot(s)
        t == s.obj.key_times[s.key_range[s.i]]
    IN  IF g.raises THEN Raise(s, g)
        ELSE [s EXCEPT !.keys = HostScaleTime(s.keys, TargetsAt(s.keys, Curve(s), t), g.p, g.obj.scale),
                       !.obj = g.obj,
                       !.log = s.log \o g.log \o <<LogE("scaleKey_time", Curve(s), g.p, g.obj.scale, t)>>,
                       !.i = s.i + 1,
                       !.pc = IF s.i < Len(s.key_range) THEN "time_multi_keys" ELSE "time_multi_snap"]

\* scale_keys_time_multi without the snapKey call
time_multi_snap_NoSnap(s) == AfterCurve(s, "scale_keys_time_multi")

\* scale_keys_time_multi, the snapKey call that ends a curve's pass
time_multi_snap(s) ==
    AfterCurve([s EXCEPT !.keys = HostSnap(s.keys), !.log = s.log \o <<Call("snapKey")>>],
               "scale_keys_time_multi")

Step(s) ==
    CASE s.pc = "scale_keys_value" -> scale_keys_value(s)
      [] s.pc = "scale_keys_value_multi" -> value_multi_curve(s)
      [] s.pc = "value_multi_keys" -> value_multi_key(s)
      [] s.pc = "scale_keys_time" -> scale_keys_time(s)
      [] s.pc = "time_snap" -> time_snap(s)
      [] s.pc = "scale_keys_time_multi" -> time_multi_curve(s)
      [] s.pc = "time_multi_keys" -> time_multi_key(s)
      [] s.pc = "time_multi_snap" -> time_multi_snap(s)
      [] OTHER -> s

\* the state in which the operation ends
RECURSIVE Run(_)
Run(s) == IF s.pc \in Final THEN s ELSE Run(Step(s))

\* a whole do_scale call on the store k
Operation(k, r) == Run(do_scale(k, r))

----------------------------------------------------------------------------
(* The state machine.                                                      *)

Factors == {MinusOne, Zero, Half, One, Int2Rat(2)}

TimeGrid == {Rat(n, 2) : n \in 0..MaxT}
ValueGrid == {Int2Rat(n) : n \in 0..MaxV}

Key(id, t, v, sel) == [curve |-> CurveOf[id], t |-> t, v |-> v, sel |-> sel, alive |-> TRUE]

\* the second curve's keys, and the first curve's when the other axis is varied
SecondT == <<Half, Int2Rat(2)>>
SecondV == <<Int2Rat(1), Int2Rat(3)>>
FirstT == <<Zero, Int2Rat(1), Int2Rat(2)>>
FirstV == <<Int2Rat(4), Int2Rat(2), Int2Rat(5)>>

Layouts ==
    {<<t, FirstV>> : t \in {x \in TimeGrid \X TimeGrid \X TimeGrid : RLt(x[1], x[2]) /\ RLt(x[2], x[3])}}
    \cup {<<FirstT, v>> : v \in ValueGrid \X ValueGrid \X ValueGrid}

Store(lay, S) ==
    [id \in KeyIds |->
        IF CurveOf[id] = 1 THEN Key(id, lay[1][id], lay[2][id], id \in S)
        ELSE Key(id, SecondT[id - 3], SecondV[id - 3], id \in S)]

NoReq == [pivot |-> "", scale |-> Zero, scale_type |-> "", ls |-> 1, ct |-> Zero]

St == [keys |-> keys, lastSel |-> lastSel, curTime |-> curTime, obj |-> obj, pc |-> pc,
       c |-> c, i |-> i, key_range |-> key_range, lpivot |-> lpivot, log |-> log]

Becomes(n) ==
    /\ keys' = n.keys
    /\ lastSel' = n.lastSel
    /\ curTime' = n.curTime
    /\ obj' = n.obj
    /\ pc' = n.pc
    /\ c' = n.c
    /\ i' = n.i
    /\ key_range' = n.key_range
    /\ lpivot' = n.lpivot
    /\ log' = n.log

Init ==
    /\ \E lay \in Layouts, S \in SUBSET KeyIds : keys = Store(lay, S)
    /\ lastSel = 1
    /\ curTime = Zero
    /\ obj = NoObj
    /\ pc = "idle"
    /\ c = 1
    /\ i = 1
    /\ key_range = <<>>
    /\ lpivot = Zero
    /\ log = <<>>
    /\ pre = keys
    /\ req = NoReq

\* the host's last selected key and current time when the button is pressed; they
\* are varied only for the strategies that read them
LastSelChoices(k, pivot) ==
    IF pivot \in {"pivot_last_selected_value", "pivot_last_selected_time"} /\ SelectedIds(k) # {}
    THEN SelectedIds(k) ELSE {1}
CurTimeChoices(pivot) ==
    IF pivot = "pivot_current_time" THEN {Int2Rat(1), Rat(5, 2)} ELSE {Zero}

\* names that are in neither table
UnknownPivot == "pivot_unknown"
UnknownMode == "scale_keys_unknown"

\* a strategy is asked for with the modes of its axis and with the unknown mode, the
\* unknown strategy with every mode
ModesFor(p) ==
    IF p \in ValuePivots THEN ValueModes \cup {UnknownMode}
    ELSE IF p \in TimePivots THEN TimeModes \cup {UnknownMode}
    ELSE ScaleOperations

\* a request with an unknown name is made with one factor
FactorsFor(p, m) == IF p = UnknownPivot \/ m = UnknownMode THEN {Int2Rat(2)} ELSE Factors

\* do_scale(pivot, user_scale, scale_type) is called: a button of the window is
\* pressed, or a caller passes names of its own
DoScale ==
    /\ pc = "idle"
    /\ \E p \in ValuePivots \cup TimePivots \cup {UnknownPivot} :
         \E m \in ModesFor(p) : \E f \in FactorsFor(p, m) :
           \E l \in LastSelChoices(keys, p), t \in CurTimeChoices(p) :
             LET r == [pivot |-> p, scale |-> f, scale_type |-> m, ls |-> l, ct |-> t] IN
             /\ Becomes(do_scale(keys, r))
             /\ req' = r
             /\ pre' = keys

ScaleKeysValue == pc = "scale_keys_value" /\ Becomes(scale_keys_value(St)) /\ UNCHANGED <<pre, req>>
ValueMultiCurve == pc = "scale_keys_value_multi" /\ Becomes(value_multi_curve(St)) /\ UNCHANGED <<pre, req>>
ValueMultiKey == pc = "value_multi_keys" /\ Becomes(value_multi_key(St)) /\ UNCHANGED <<pre, req>>
ScaleKeysTime == pc = "scale_keys_time" /\ Becomes(scale_keys_time(St)) /\ UNCHANGED <<pre, req>>
TimeSnap == pc = "time_snap" /\ Becomes(time_snap(St)) /\ UNCHANGED <<pre, req>>
TimeMultiCurve == pc = "scale_keys_time_multi" /\ Becomes(time_multi_curve(St)) /\ UNCHANGED <<pre, req>>
TimeMultiKey == pc = "time_multi_keys" /\ Becomes(time_multi_key(St)) /\ UNCHANGED <<pre, req>>
TimeMultiSnap == pc = "time_multi_snap" /\ Becomes(time_multi_snap(St)) /\ UNCHANGED <<pre, req>>

Next ==
    \/ DoScale
    \/ ScaleKeysValue
    \/ ValueMultiCurve
    \/ ValueMultiKey
    \/ ScaleKeysTime
    \/ TimeSnap
    \/ TimeMultiCurve
    \/ TimeMultiKey
    \/ TimeMultiSnap

Spec == Init /\ [][Next]_vars

----------------------------------------------------------------------------
(* Properties.                                                             *)

PreSel == SelectedIds(pre)
NumSel == Cardinality(PreSel)
Started == pc # "idle"
Accepted == pc \notin {"idle", "rejected"}
Writes == {"scaleKey_value", "scaleKey_time"}
LogOps(ops) == {n \in DOMAIN log : log[n].op \in ops}
\* the factor the host is given: -1 for the flip strategies, the user's otherwise
EffectiveScale == IF req.pivot \in FlipPivots THEN MinusOne ELSE req.scale

\* C1: the guard accepts exactly when at least 2 keys are selected, or at least 1 key
\* is selected and the strategy is zero-value, current-time or flip-zero-value; a
\* selection of size 1 is rejected for middle-value and accepted for those three.
C1_GuardAcceptsExactly ==
    Started =>
        /\ Accepted <=> \/ NumSel >= 2
                        \/ NumSel >= 1 /\ req.pivot \in {"pivot_zero_value", "pivot_current_time",
                                                         "pivot_flip_zero_value"}
        /\ (NumSel = 1 /\ req.pivot = "pivot_middle_value") => ~Accepted
        /\ (NumSel = 1 /\ req.pivot \in {"pivot_zero_value", "pivot_current_time",
                                         "pivot_flip_zero_value"}) => Accepted

C1_Witness == Accepted /\ NumSel = 1 /\ req.pivot = "pivot_flip_zero_value"

\* C2: a request the guard rejects emits exactly one warning, constructs no Scalist,
\* issues no scaleKey and no snapKey, and leaves every key as it was.
C2_RejectionHasNoEffect ==
    (Started /\ ~check_for_selected_keys(NumSel, req.pivot)) =>
        /\ pc = "rejected"
        /\ Cardinality(LogOps({"warning"})) = 1
        /\ obj = NoObj
        /\ LogOps({"getValue", "query_curves", "query_values", "query_times"}) = {}
        /\ LogOps(Writes \cup {"snapKey"}) = {}
        /\ keys = pre

C2_Witness == pc = "rejected" /\ NumSel = 1 /\ req.pivot = "pivot_middle_value"

\* C3: a unified value scale makes one scaleKey call with one pivot, and every selected
\* key ends at pivot + (value - pivot) * factor; with the zero-value pivot at value * f,
\* and with factor 0 (no flip) at the pivot.
C3_UnifiedValueScale ==
    (pc = "done" /\ req.scale_type = "scale_keys_value") =>
        /\ Cardinality(LogOps(Writes)) = 1
        /\ \A n \in LogOps(Writes) :
             /\ log[n].op = "scaleKey_value" /\ log[n].curve = 0
             /\ log[n].scale = EffectiveScale
             /\ \A id \in PreSel :
                  /\ keys[id].v = ScaleAbout(pre[id].v, log[n].pivot, EffectiveScale)
                  /\ req.pivot = "pivot_zero_value" => keys[id].v = RMul(pre[id].v, req.scale)
                  /\ (req.scale = Zero /\ req.pivot \notin FlipPivots) => keys[id].v = log[n].pivot
             /\ req.pivot = "pivot_highest_value" => \A id \in PreSel : RLe(pre[id].v, log[n].pivot)
             /\ req.pivot = "pivot_lowest_value" => \A id \in PreSel : RLe(log[n].pivot, pre[id].v)

C3_Witness ==
    /\ pc = "done" /\ req.scale_type = "scale_keys_value" /\ req.pivot = "pivot_highest_value"
    /\ req.scale = Half /\ NumSel >= 3
    /\ \E id \in PreSel : keys[id].v # pre[id].v

\* the store k with nothing selected outside the curve cv
Alone(k, cv) == [id \in KeyIds |-> IF k[id].curve = cv THEN k[id] ELSE [k[id] EXCEPT !.sel = FALSE]]

\* the strategies whose pivot is taken from the curve's own selected keys
DerivedPivots == {"pivot_highest_value", "pivot_lowest_value", "pivot_middle_value",
                  "pivot_first_value", "pivot_flip_curve_value", "pivot_first_time",
                  "pivot_last_time"}

NoneDead(k, cv) == \A id \in KeyIds : k[id].curve = cv => k[id].alive

\* C4: in the per-curve modes with a pivot derived from the curve's own keys, a curve's
\* selected keys end where they end when nothing else is selected (the request on the
\* curve alone being one the guard accepts).  Compared where no key of the curve has
\* been replaced by another, so that the host's choice between two keys written to one
\* time plays no part.
C4_PerCurveIndependent ==
    (pc = "done" /\ req.scale_type \in {"scale_keys_value_multi", "scale_keys_time_multi"}
                 /\ req.pivot \in DerivedPivots) =>
        \A cv \in CurveIds :
            Cardinality(SelectedOn(pre, cv)) >= 2 =>
                LET a == Operation(Alone(pre, cv), req).keys IN
                (NoneDead(keys, cv) /\ NoneDead(a, cv)) =>
                    \A id \in SelectedOn(pre, cv) : keys[id].t = a[id].t /\ keys[id].v = a[id].v

OneCurveSelected == Cardinality({pre[id].curve : id \in PreSel}) = 1

Unified(m) == IF m = "scale_keys_value_multi" THEN "scale_keys_value" ELSE "scale_keys_time"

\* the frames of each curve that hold a key
Frames(k) == {<<k[id].curve, k[id].t>> : id \in AliveIds(k)}

\* C5: when the selected keys all lie on one curve, the per-curve mode leaves the store
\* as the unified mode of the same axis does: keys on the same frames and, where no key
\* has been replaced by another, every key with the same time and value.
C5_SingleCurveModesAgree ==
    (pc = "done" /\ OneCurveSelected
                 /\ req.scale_type \in {"scale_keys_value_multi", "scale_keys_time_multi"}) =>
        LET u == Operation(pre, [req EXCEPT !.scale_type = Unified(@)]).keys IN
        /\ Frames(keys) = Frames(u)
        /\ (AliveIds(keys) = KeyIds /\ AliveIds(u) = KeyIds) => keys = u

\* C6: with factor 1, a strategy that is no flip and at least 2 selected keys, every key
\* keeps its value, a value scale changes nothing, a time scale leaves every selected
\* key on its time rounded to the nearest frame, and the operation done again on the
\* result changes nothing.
C6_NeutralFactor ==
    (pc = "done" /\ req.scale = One /\ req.pivot \notin FlipPivots /\ NumSel >= 2) =>
        /\ \A id \in KeyIds : keys[id].v = pre[id].v
        /\ req.scale_type \in ValueModes => keys = pre
        /\ req.scale_type \in TimeModes =>
               \A id \in SelectedIds(keys) : keys[id].t = RRound(pre[id].t)
        /\ Operation(keys, req).keys = keys

C6_Witness ==
    /\ pc = "done" /\ req.scale = One /\ req.scale_type = "scale_keys_time_multi"
    /\ req.pivot = "pivot_first_time" /\ NumSel >= 3
    /\ \E id \in PreSel : keys[id].t # pre[id].t

\* C7: a unified value scale with flip-curve-value and any user factor leaves the store
\* as the same scale with middle-value and factor -1 does: the host is given the
\* middle of the selected values as the pivot and -1 as the factor.
C7_FlipIsMiddleMinusOne ==
    (pc \in Final /\ req.scale_type = "scale_keys_value" /\ req.pivot = "pivot_flip_curve_value") =>
        /\ keys = Operation(pre, [req EXCEPT !.pivot = "pivot_middle_value", !.scale = MinusOne]).keys
        /\ \A n \in LogOps(Writes) : log[n].scale = MinusOne

C7_Witness ==
    /\ pc = "done" /\ req.scale_type = "scale_keys_value" /\ req.pivot = "pivot_flip_curve_value"
    /\ req.scale = Int2Rat(2)
    /\ \E id \in PreSel : keys[id].v # pre[id].v

\* C8: when a time scale, unified or per-curve, has completed, every selected key of
\* the store is on a whole frame.
C8_TimesAreWholeFrames ==
    (pc = "done" /\ req.scale_type \in TimeModes) =>
        \A id \in SelectedIds(keys) : RIsInt(keys[id].t)

C8_Witness ==
    /\ pc = "done" /\ req.scale_type = "scale_keys_time_multi" /\ req.scale = Half
    /\ \E id \in PreSel : ~RIsInt(pre[id].t)
    /\ \E id \in PreSel : ~RIsInt(ScaleAbout(pre[id].t, RMin(QueryTimes(pre)), Half))

\* C9 as stated: in every state of every operation every curve holds the keys it held
\* before.
C9_NoSampleDeleted == AliveIds(keys) = AliveIds(pre)

\* C9 as amended: no step creates a key; no step of a value scale removes one; a step
\* of a time scale removes a key only when a key of the same curve that stays has been
\* written to the same time.
C9_OnlyCoalescingDeletes ==
    [][/\ AliveIds(keys') \subseteq AliveIds(keys)
       /\ req'.scale_type \in ValueModes => AliveIds(keys') = AliveIds(keys)
       /\ \A id \in AliveIds(keys) \ AliveIds(keys') :
            \E j \in AliveIds(keys') : keys'[j].curve = keys'[id].curve /\ keys'[j].t = keys'[id].t]_vars

C9_Witness ==
    /\ pc = "done" /\ req.scale_type = "scale_keys_time" /\ req.scale = Zero
    /\ AliveIds(keys) # AliveIds(pre)

\* C10: in a per-curve time scale with the last-time pivot and a factor above 1, after
\* every write of the loop over a curve's keys the curve's selected keys are in the
\* order they had before: no key already scaled has moved past one not yet scaled.
C10_BackwardKeepsOrder ==
    (pc \in {"time_multi_keys", "time_multi_snap"} /\ req.pivot = "pivot_last_time"
        /\ RLt(One, req.scale)) =>
        \A a, b \in SelectedOn(keys, Curve(St)) :
            RLt(pre[a].t, pre[b].t) => RLe(keys[a].t, keys[b].t)

\* the time a write of the log sends the key it addresses to
Landed(e) == ScaleAbout(e.time, e.pivot, e.scale)

\* C11: in a per-curve time scale with a time pivot other than last-time, of two writes
\* to one curve the earlier never sends its key onto the time the later one addresses
\* (the later write would hit a key already scaled) nor past it (the key would pass one
\* not yet scaled).
C11_AscendingOrderSafe ==
    (req.scale_type = "scale_keys_time_multi"
        /\ req.pivot \in {"pivot_first_time", "pivot_current_time", "pivot_last_selected_time"}) =>
        \A m, n \in LogOps({"scaleKey_time"}) :
            (m < n /\ log[m].curve = log[n].curve) =>
                /\ Landed(log[m]) # log[n].time
                /\ ~(RLt(log[m].time, log[n].time) /\ RLt(log[n].time, Landed(log[m])))
                /\ ~(RLt(log[n].time, log[m].time) /\ RLt(Landed(log[m]), log[n].time))

\* C12: the selection is read once, when the operation starts: no read of the selected
\* times or values follows a write in the log, and the first-time or last-time pivot a
\* per-curve time scale gives the host for a curve is the earliest or latest time the
\* curve's selected keys had before the operation.
C12_SelectionReadOnce ==
    /\ \A n \in LogOps(Writes), m \in LogOps({"query_values", "query_times"}) : m < n
    /\ \A n \in LogOps({"scaleKey_time"}) :
         log[n].curve # 0 =>
            /\ req.pivot = "pivot_first_time" => log[n].pivot = RMin(get_key_times(pre, log[n].curve))
            /\ req.pivot = "pivot_last_time" => log[n].pivot = RMax(get_key_times(pre, log[n].curve))

\* C13: when the guard accepts the selection and the strategy's name is not in the
\* switcher or the mode's name is not in scale_operations, the operation ends with the
\* exception raised (not done, not rejected), no warning is given, and no scaleKey or
\* snapKey call is made: every key stays as it was.
C13_UnknownNameRaises ==
    (Started /\ check_for_selected_keys(NumSel, req.pivot)
             /\ (req.pivot \notin Switcher \/ req.scale_type \notin ScaleOperations)) =>
        /\ pc \notin {"done", "rejected"}
        /\ Run(St).pc = "error"
        /\ LogOps({"warning"}) = {}
        /\ LogOps(Writes \cup {"snapKey"}) = {}
        /\ keys = pre

C13_Witness ==
    /\ pc = "error" /\ req.pivot = UnknownPivot /\ req.scale_type = "scale_keys_time_multi"
    /\ NumSel >= 2 /\ LogOps({"query_times"}) # {}

\* C14 as stated: an accepted operation that has completed has made exactly one
\* scaleKey call, on the whole selection.
C14_OneBatchedWrite ==
    pc = "done" =>
        /\ Cardinality(LogOps(Writes)) = 1
        /\ \A n \in LogOps(Writes) : log[n].curve = 0

\* C14 as amended: a unified scale that has completed has made one scaleKey call on the
\* whole selection (and then one snapKey call when it scales time); a per-curve scale
\* has made one scaleKey call, on one curve at one time, for every selected key it read
\* (and one snapKey call for every curve when it scales time): as many as keys were
\* selected, fewer only when a selected key has been replaced by another.
C14_WritesPerMode ==
    pc = "done" =>
        LET w == Cardinality(LogOps(Writes))
            sn == Cardinality(LogOps({"snapKey"}))
        IN  /\ req.scale_type = "scale_keys_value" => w = 1 /\ sn = 0
            /\ req.scale_type = "scale_keys_time" => w = 1 /\ sn = 1
            /\ req.scale_type \in {"scale_keys_value", "scale_keys_time"} =>
                   \A n \in LogOps(Writes) : log[n].curve = 0
            /\ req.scale_type = "scale_keys_value_multi" => w = NumSel /\ sn = 0
            /\ req.scale_type = "scale_keys_time_multi" =>
                   /\ sn = Len(obj.curves)
                   /\ Len(obj.curves) <= w /\ w <= NumSel
                   /\ AliveIds(keys) = KeyIds => w = NumSel
            /\ req.scale_type \in {"scale_keys_value_multi", "scale_keys_time_multi"} =>
                   \A n \in LogOps(Writes) : log[n].curve \in CurveIds

C14_Witness ==
    /\ pc = "value_multi_keys" /\ NumSel >= 3 /\ Cardinality(LogOps(Writes)) = 1
    /\ \E a, b \in SelectedOn(pre, Curve(St)) :
         /\ keys[a].v # pre[a].v
         /\ keys[b].v = pre[b].v /\ Operation(pre, req).keys[b].v # pre[b].v

TimeWrites == LogOps({"scaleKey_time"})

\* C15: in a per-curve time scale, two writes to one curve address a later time first
\* when the strategy is last-time (the first write of a curve addresses the pivot) and
\* an earlier time first for every other strategy, with no snapKey call between them;
\* writes to two curves come curve after curve with a snapKey call between them; and
\* when a curve is snapped every time read for it has been written.
C15_WriteOrder ==
    req.scale_type = "scale_keys_time_multi" =>
        /\ \A m, n \in TimeWrites :
             (m < n /\ log[m].curve = log[n].curve) =>
                /\ IF req.pivot = "pivot_last_time" THEN RLt(log[n].time, log[m].time)
                                                    ELSE RLt(log[m].time, log[n].time)
                /\ \A k \in LogOps({"snapKey"}) : ~(m < k /\ k < n)
        /\ \A m, n \in TimeWrites :
             (m < n /\ log[m].curve # log[n].curve) =>
                /\ log[m].curve < log[n].curve
                /\ \E k \in LogOps({"snapKey"}) : m < k /\ k < n
        /\ \A n \in TimeWrites :
             (req.pivot = "pivot_last_time" /\ ~\E m \in TimeWrites : m < n /\ log[m].curve = log[n].curve)
                => log[n].time = log[n].pivot
        /\ pc = "time_multi_snap" =>
             {log[n].time : n \in {x \in TimeWrites : log[x].curve = Curve(St)}}
                 = {obj.key_times[n] : n \in DOMAIN obj.key_times}

C15_Witness ==
    /\ pc = "done" /\ req.scale_type = "scale_keys_time_multi" /\ req.pivot = "pivot_last_time"
    /\ Cardinality({n \in TimeWrites : log[n].curve = 1}) = 3
    /\ Cardinality({n \in TimeWrites : log[n].curve = 2}) = 2
    /\ Cardinality(LogOps({"snapKey"})) = 2

\* the flips the window offers, by strategy and mode
Flips == {<<"pivot_flip_curve_value", "scale_keys_value">>,
          <<"pivot_flip_curve_value", "scale_keys_value_multi">>,
          <<"pivot_flip_zero_value", "scale_keys_value">>}

\* C16: when a flip (flip-curve-value, unified or per-curve, or flip-zero-value,
\* unified) has completed, the same flip done again on the result completes and leaves
\* every key with the value, and the store in the state, it had before the first,
\* whatever the user's factor.
C16_FlipIsInvolution ==
    (pc = "done" /\ <<req.pivot, req.scale_type>> \in Flips) =>
        LET again == Operation(keys, req) IN
        /\ SelectedIds(keys) = PreSel
        /\ again.pc = "done"
        /\ \A id \in KeyIds : again.keys[id].v = pre[id].v
        /\ again.keys = pre

C16_Witness ==
    /\ pc = "done" /\ req.pivot = "pivot_flip_curve_value" /\ req.scale_type = "scale_keys_value_multi"
    /\ req.scale = Int2Rat(2) /\ NumSel >= 4
    /\ \E id \in PreSel : keys[id].v # pre[id].v
    /\ Operation(keys, req).keys = pre

\* C17: in every state of an operation, a value scale (unified or per-curve) has left
\* every key of the store on its time, a time scale has left every key with its value,
\* and in all four modes a key that was not selected has the time and the value it had.
C17_FrameEffect ==
    Started =>
        /\ req.scale_type \in ValueModes => \A id \in AliveIds(keys) : keys[id].t = pre[id].t
        /\ req.scale_type \in TimeModes => \A id \in AliveIds(keys) : keys[id].v = pre[id].v
        /\ \A id \in AliveIds(keys) \ PreSel :
             keys[id].t = pre[id].t /\ keys[id].v = pre[id].v

C17_Witness ==
    /\ pc = "done" /\ req.scale_type = "scale_keys_time_multi" /\ NumSel = 3
    /\ \E a \in PreSel, b \in AliveIds(keys) \ PreSel :
         /\ pre[a].curve = pre[b].curve
         /\ keys[a].alive /\ keys[a].t # pre[a].t
         /\ RLt(pre[a].t, pre[b].t) /\ RLt(keys[b].t, keys[a].t)

====
